---- MODULE Spec2Model ----
(***************************************************************************)
(* Model of getCaptchaToken (src/unnamed/part_000): one browser session,  *)
(* a detached challenge-solving loop and a route handler that intercepts   *)
(* the generation-submission request.  Every action is the completion of   *)
(* one awaited operation followed by the synchronous code that runs up to  *)
(* the next await; the route handler has no await and is one action.       *)
(***************************************************************************)
EXTENDS Integers, Sequences, FiniteSets, TLC

\* ---------------------------------------------------------------- bounds
MaxIter == 1        \* submit clicks issued by the loop (iterations that reach line 189)
MaxSolves == 3      \* solver.coordinates calls over the whole run
MaxPoints == 4      \* points in one solution returned by the solving service
MaxMatches == 2     \* requests matching the route pattern during one run

\* ------------------------------------------------------- program constants
MaxAttempts == 3    \* for (let j = 0; j < 3; j++)

\* ------------------------------------------------------------ error texts
\* Error messages are sequences of fragments; the code inspects them with
\* String.includes and ==.
EClosed == <<"Target page, context or browser has ", "been closed">>
EAbort == <<"AbortError">>
EViewport == <<"Element is outside of the ", "viewport">>
ETimeout == <<"Timeout exceeded">>
EBBoxNull == <<".challenge-container boundingBox is null!">>
EService == <<"ERROR_CAPTCHA_UNSOLVABLE">>
ETypeError == <<"Cannot read properties of undefined">>
NoValue == <<>>

\* s.includes(sub)
Includes(s, sub) ==
    \E k \in 0..(Len(s) - Len(sub)) : SubSeq(s, k + 1, k + Len(sub)) = sub

\* c.toLowerCase() for one character
LowerChar(c) ==
    CASE c = "D" -> "d"
      [] c = "R" -> "r"
      [] c = "A" -> "a"
      [] c = "G" -> "g"
      [] c = "P" -> "p"
      [] c = "S" -> "s"
      [] OTHER -> c

\* s.toLowerCase()
ToLowerCase(s) == [k \in 1..Len(s) |-> LowerChar(s[k])]

DragWord == <<"d", "r", "a", "g">>

\* line 141: innerText().toLowerCase().includes('drag')
IsDragMut(text) == Includes(text, DragWord)

IsDrag(text) == Includes(ToLowerCase(text), DragWord)

\* Instruction texts the widget can show.
Prompts ==
    { <<"P", "l", "s", " ", "D", "r", "a", "g">>,
      <<"S", "e", "l", "e", "c", "t">> }

\* line 197: e.message.includes('been closed') || e.message == 'AbortError'
IsCancellationMut(msg) == msg = EAbort

IsCancellation(msg) == Includes(msg, <<"been closed">>) \/ msg = EAbort

\* line 190: e.message.includes('viewport')
IsViewport(msg) == Includes(msg, <<"viewport">>)

\* ------------------------------------------------------- request parsing
BearerPrefix == <<"B", "e", "a", "r", "e", "r", " ">>

RECURSIVE SplitPop(_, _)
\* s.split(sep).pop(): the piece after the last separator found by a
\* left-to-right scan, the whole string when the separator does not occur.
SplitPop(s, sep) ==
    IF Includes(s, sep)
    THEN LET k == CHOOSE k \in 0..(Len(s) - Len(sep)) :
                      /\ SubSeq(s, k + 1, k + Len(sep)) = sep
                      /\ \A m \in 0..(k - 1) : SubSeq(s, m + 1, m + Len(sep)) # sep
         IN SplitPop(SubSeq(s, k + Len(sep) + 1, Len(s)), sep)
    ELSE s

Cred1 == <<"t", "1">>
Tok1 == <<"x">>
Tok2 == <<"y">>

\* request.headers().authorization: present or undefined
NoHeader == [present |-> FALSE, value |-> NoValue]
Header(v) == [present |-> TRUE, value |-> v]

\* Requests that can match the route pattern: the authorization header is
\* absent, carries a bearer credential, or carries an empty one; the body is
\* a JSON object with a token field.
Request(auth, token) == [auth |-> auth, body |-> [token |-> token]]

Requests ==
    { Request(NoHeader, Tok1),
      Request(Header(BearerPrefix \o Cred1), Tok1),
      Request(Header(BearerPrefix \o Cred1), Tok2),
      Request(Header(BearerPrefix), Tok1) }

NoCaptcha == [id |-> 0, n |-> 0]

\* states of a submit click before it settles
NotIssued == <<"not issued">>
Issued == <<"issued">>
IssuedLate == <<"issued after the signal">>

VARIABLES
    mainPc,         \* position of getCaptchaToken's own body (lines 106-130)
    session,        \* "none" | "open" | "closing" | "closed"
    aborted,        \* controller.signal.aborted
    abortCalls,     \* controller.abort() calls
    closeCalls,     \* browser.browser()?.close() calls
    callerState,    \* state of the promise returned to the caller
    callerValue,    \* its value or rejection message
    pc,             \* the loop's pending awaited operation
    wait,           \* let wait (line 137)
    prompt,         \* instruction text read at line 141
    drag,           \* const drag (line 141)
    j,              \* attempt index of the solve retry loop
    captcha,        \* let captcha (line 142): [id, n]
    i,              \* index into captcha.data
    iter,           \* submit clicks issued so far
    late,           \* the pending operation was issued after the signal was set
    instr,          \* the pending solve request carries the drag instructions
    boxStale,       \* challengeBox was read before an earlier suspension point
    loopErr,        \* error passed to reject (line 200)
    solveCalls,     \* solver.coordinates calls so far
    passCalls,      \* solver.coordinates calls in the current retry loop
    badReports,     \* solver.badReport calls so far
    lastBad,        \* solution id passed to the latest solver.badReport call
    solPtr,         \* pointer actions executed for the current solution
    mouseDown,      \* the pointer is pressed
    submit,         \* per submit click: not issued, issued, or the outcome it settled with
    altClicks,      \* clicks on the alternate submit control per submit click
    unhandled,      \* rejections no handler receives
    matches,        \* route handler invocations
    routeAborted,   \* route.abort() calls
    routeContinued, \* requests forwarded to the network
    cbCalls,        \* onNewToken calls
    cbLast          \* argument of the latest onNewToken call

vars == << mainPc, session, aborted, abortCalls, closeCalls, callerState, callerValue,
           pc, wait, prompt, drag, j, captcha, i, iter, late, instr, boxStale, loopErr,
           solveCalls, passCalls, badReports, lastBad, solPtr, mouseDown,
           submit, altClicks, unhandled,
           matches, routeAborted, routeContinued, cbCalls, cbLast >>

mainVars == << mainPc >>
sessVars == << session, aborted, abortCalls, closeCalls >>
callerVars == << callerState, callerValue >>
\* variables of the loop body, which go out of scope when it ends
locals == << wait, prompt, drag, j, captcha, i, solPtr, passCalls >>
\* what the loop has done so far
history == << iter, solveCalls, badReports, lastBad, mouseDown >>
\* facts about the pending operation
issued == << late, instr, boxStale >>
loopVars == << pc, issued, loopErr, locals, history >>
submitVars == << submit, altClicks >>
routeVars == << matches, routeAborted, routeContinued, cbCalls, cbLast >>

Init ==
    /\ mainPc = "Launch"
    /\ session = "none"
    /\ aborted = FALSE
    /\ abortCalls = 0
    /\ closeCalls = 0
    /\ callerState = "pending"
    /\ callerValue = NoValue
    /\ pc = "Idle"
    /\ wait = TRUE
    /\ prompt = NoValue
    /\ drag = FALSE
    /\ j = 0
    /\ captcha = NoCaptcha
    /\ i = 0
    /\ iter = 0
    /\ late = FALSE
    /\ instr = FALSE
    /\ boxStale = FALSE
    /\ loopErr = NoValue
    /\ solveCalls = 0
    /\ passCalls = 0
    /\ badReports = 0
    /\ lastBad = 0
    /\ solPtr = 0
    /\ mouseDown = FALSE
    /\ submit = [k \in 1..MaxIter |-> NotIssued]
    /\ altClicks = [k \in 1..MaxIter |-> 0]
    /\ unhandled = 0
    /\ matches = 0
    /\ routeAborted = 0
    /\ routeContinued = 0
    /\ cbCalls = 0
    /\ cbLast = NoValue

\* ------------------------------------------------------------- helpers
OK == <<"ok">>

\* browser.browser()?.close(): the session starts closing on the first call
CloseSession(s) == IF s = "open" THEN "closing" ELSE s

\* Outcomes of an operation on the page.  While the browser is closing an
\* operation still goes through; from the moment the page is gone every
\* operation fails with "... has been closed".  extra: other failures the
\* operation can have on a live page.
PageOutcomes(extra) ==
    (IF session \in {"open", "closing"} THEN {OK} ELSE {EClosed})
    \cup (IF session = "open" THEN extra ELSE {})

\* assignment of the loop body's variables
Locals(w, p, d, jj, c, ii, sp, pcs) ==
    /\ wait' = w
    /\ prompt' = p
    /\ drag' = d
    /\ j' = jj
    /\ captcha' = c
    /\ i' = ii
    /\ solPtr' = sp
    /\ passCalls' = pcs

\* a new iteration starts: const drag, let captcha and the counters are fresh
\* (the instruction text and the attempt counter are already out of scope
\* once the retry loop of lines 143-163 is left)
NextIteration(w) == Locals(w, NoValue, FALSE, 0, NoCaptcha, 0, 0, 0)

\* the awaited operations of one point-pair (lines 177-181)
DragPcs == {"Move1", "Down", "Sleep", "Move2", "Up"}

\* lines 150-153: the payload gets textinstructions and imginstructions
\* exactly when drag is set
InstructionsSent(p) == p = "Solve" /\ drag

\* line 165 is the only read of challengeBox: from the first await of the
\* first pair on, the box in use was read before a suspension point
BoxStaleAt(p) == pc \in DragPcs /\ p \in DragPcs

\* the loop moves on to its next awaited operation
Goto(p) ==
    /\ pc' = p
    /\ late' = aborted
    /\ instr' = InstructionsSent(p)
    /\ boxStale' = BoxStaleAt(p)
    /\ UNCHANGED << loopErr, closeCalls, session, unhandled >>

\* lines 196-205: the catch around the loop, and the .catch on the detached
\* promise, which runs as a microtask right after reject(e)
LoopCatch(e) ==
    /\ late' = FALSE
    /\ instr' = FALSE
    /\ boxStale' = FALSE
    /\ NextIteration(TRUE)
    /\ IF IsCancellation(e)
       THEN /\ pc' = "Cancelled"
            /\ UNCHANGED << loopErr, closeCalls, session, unhandled >>
       ELSE /\ pc' = "Failed"
            /\ loopErr' = e
            /\ closeCalls' = closeCalls + 1
            /\ session' = CloseSession(session)
            /\ unhandled' = unhandled + 1

\* lines 138-140: top of the while loop
LoopTop(w) == IF w THEN "Wait" ELSE "Detect"

\* variables no step of the loop touches
loopFrame == << mainVars, aborted, abortCalls, callerVars, routeVars >>

\* --------------------------------------------------------------- setup
\* A failure before the loop and the route handler exist rejects the
\* promise of the async function itself.
SetupFail(e) ==
    /\ mainPc' = "SetupFailed"
    /\ callerState' = "rejected"
    /\ callerValue' = e

\* line 107: launchBrowser
Launch ==
    /\ mainPc = "Launch"
    /\ \/ /\ mainPc' = "Navigate"
          /\ session' = "open"
          /\ UNCHANGED callerVars
       \/ /\ SetupFail(ETimeout)
          /\ UNCHANGED session
    /\ UNCHANGED << aborted, abortCalls, closeCalls, loopVars, submitVars, unhandled, routeVars >>

\* lines 108-109: newPage, goto
Navigate ==
    /\ mainPc = "Navigate"
    /\ \/ /\ mainPc' = "WaitIface"
          /\ UNCHANGED callerVars
       \/ SetupFail(ETimeout)
    /\ UNCHANGED << sessVars, loopVars, submitVars, unhandled, routeVars >>

\* line 112: waitForResponse with a 60 s timeout
WaitIface ==
    /\ mainPc = "WaitIface"
    /\ \/ /\ mainPc' = "Trigger"
          /\ UNCHANGED callerVars
       \/ SetupFail(ETimeout)
    /\ UNCHANGED << sessVars, loopVars, submitVars, unhandled, routeVars >>

\* lines 114-131 and 206-207: trigger the challenge, create the controller,
\* start the detached loop and register the route handler
Trigger ==
    /\ mainPc = "Trigger"
    /\ \/ /\ mainPc' = "Running"
          /\ pc' = LoopTop(wait)
          /\ UNCHANGED callerVars
       \/ /\ SetupFail(ETimeout)
          /\ UNCHANGED pc
    /\ UNCHANGED << sessVars, issued, loopErr, locals, history, submitVars, unhandled,
                    routeVars >>

\* the browser finishes closing
SessionClosed ==
    /\ session = "closing"
    /\ session' = "closed"
    /\ UNCHANGED << mainVars, aborted, abortCalls, closeCalls, callerVars, loopVars,
                    submitVars, unhandled, routeVars >>

\* ------------------------------------------------------------ the loop
\* line 140: waitForRequests(page, controller.signal) returns on network
\* quiescence and throws AbortError once the signal is set
WaitOutcomes == IF aborted THEN {EAbort} ELSE {OK}

WaitForRequests ==
    /\ pc = "Wait"
    /\ \E out \in WaitOutcomes :
          IF out = OK
          THEN Goto("Detect") /\ UNCHANGED locals
          ELSE LoopCatch(out)
    /\ UNCHANGED << history, submitVars, loopFrame >>

\* lines 141-143: read the instruction text, classify, enter the retry loop
Detect ==
    /\ pc = "Detect"
    /\ \E out \in PageOutcomes({ETimeout}) :
          IF out = OK
          THEN \E text \in Prompts :
                  /\ solveCalls < MaxSolves
                  /\ Locals(wait, text, IsDrag(text), 0, NoCaptcha, 0, 0, 0)
                  /\ Goto("Payload")
          ELSE LoopCatch(out)
    /\ UNCHANGED << history, submitVars, loopFrame >>

\* lines 156-162: catch of one attempt
RetryCatchMut(e) ==
    /\ Locals(wait, prompt, drag, (j + 1) % MaxAttempts, captcha, i, solPtr, passCalls)
    /\ Goto("Payload")

RetryCatch(e) ==
    IF j # MaxAttempts - 1
    THEN /\ Locals(wait, prompt, drag, j + 1, captcha, i, solPtr, passCalls)
         /\ Goto("Payload")
    ELSE LoopCatch(e)

\* lines 146-154: build the payload (screenshot with a 5 s timeout, and the
\* instruction image for drag), then call solver.coordinates
Payload ==
    /\ pc = "Payload"
    /\ \E out \in PageOutcomes({ETimeout}) :
          IF out = OK
          THEN /\ solveCalls < MaxSolves
               /\ solveCalls' = solveCalls + 1
               /\ Locals(wait, prompt, drag, j, captcha, i, solPtr, passCalls + 1)
               /\ Goto("Solve")
          ELSE /\ RetryCatch(out)
               /\ UNCHANGED solveCalls
    /\ UNCHANGED << iter, badReports, lastBad, mouseDown, submitVars,
                    loopFrame >>

\* lines 154-155 and 164, 185: where the loop goes with a solution of n points
AfterSolve(isDrag, n) ==
    IF isDrag THEN "BBox"
    ELSE IF n = 0 THEN "Submit" ELSE "Click"

\* lines 154-155: the solving service answers with a solution or an error
Solve ==
    /\ pc = "Solve"
    /\ \/ \E n \in 0..MaxPoints :
             /\ Locals(wait, NoValue, drag, 0, [id |-> solveCalls, n |-> n], 0, 0, 0)
             /\ Goto(AfterSolve(drag, n))
       \/ RetryCatch(EService)
    /\ UNCHANGED << iter, solveCalls, badReports, lastBad, mouseDown, submitVars,
                    loopFrame >>

BoxNull == <<"null">>

\* challenge.boundingBox() resolves to a box, or to null when the container
\* is not visible
BBoxOutcomes ==
    PageOutcomes({}) \cup (IF session \in {"open", "closing"} THEN {BoxNull} ELSE {})

\* line 168: captcha.data.length % 2
IsOdd(n) == n % 2 = 1

\* lines 165-173 and 183: resolve the container's box, reject an odd-length
\* solution, start the first point-pair
BBox ==
    /\ pc = "BBox"
    /\ \E out \in BBoxOutcomes :
          IF out = OK
          THEN IF IsOdd(captcha.n)
               THEN /\ badReports' = badReports + 1
                    /\ lastBad' = captcha.id
                    /\ NextIteration(FALSE)
                    /\ Goto(LoopTop(FALSE))
               ELSE IF captcha.n = 0
               THEN /\ Locals(TRUE, prompt, drag, j, captcha, i, solPtr, passCalls)
                    /\ Goto("Submit")
                    /\ UNCHANGED << badReports, lastBad >>
               ELSE /\ Goto("Move1")
                    /\ UNCHANGED << badReports, lastBad, locals >>
          ELSE /\ LoopCatch(IF out = BoxNull THEN EBBoxNull ELSE out)
               /\ UNCHANGED << badReports, lastBad >>
    /\ UNCHANGED << iter, solveCalls, mouseDown, submitVars,
                    loopFrame >>

\* line 177: move to the start point
Move1 ==
    /\ pc = "Move1"
    /\ \E out \in PageOutcomes({}) :
          IF out = OK
          THEN /\ Locals(wait, prompt, drag, j, captcha, i, solPtr + 1, passCalls)
               /\ Goto("Down")
          ELSE LoopCatch(out)
    /\ UNCHANGED << iter, solveCalls, badReports, lastBad, mouseDown, submitVars, loopFrame >>

\* line 178: press
DownMut ==
    /\ pc = "Down"
    /\ \E out \in PageOutcomes({}) :
          IF out = OK
          THEN /\ mouseDown' = TRUE
               /\ Locals(wait, prompt, drag, j, captcha, i, solPtr + 1, passCalls)
               /\ Goto("Move2")
          ELSE LoopCatch(out) /\ UNCHANGED mouseDown
    /\ UNCHANGED << iter, solveCalls, badReports, lastBad, submitVars, loopFrame >>

Down ==
    /\ pc = "Down"
    /\ \E out \in PageOutcomes({}) :
          IF out = OK
          THEN /\ mouseDown' = TRUE
               /\ Locals(wait, prompt, drag, j, captcha, i, solPtr + 1, passCalls)
               /\ Goto("Sleep")
          ELSE LoopCatch(out) /\ UNCHANGED mouseDown
    /\ UNCHANGED << iter, solveCalls, badReports, lastBad, submitVars, loopFrame >>

\* line 179: sleep(1.1), a timer that does not touch the page
Sleep ==
    /\ pc = "Sleep"
    /\ Goto("Move2")
    /\ UNCHANGED << locals, history, submitVars, loopFrame >>

\* line 180: move to the end point
Move2 ==
    /\ pc = "Move2"
    /\ \E out \in PageOutcomes({}) :
          IF out = OK
          THEN /\ Locals(wait, prompt, drag, j, captcha, i, solPtr + 1, passCalls)
               /\ Goto("Up")
          ELSE LoopCatch(out)
    /\ UNCHANGED << iter, solveCalls, badReports, lastBad, mouseDown, submitVars, loopFrame >>

\* lines 181-183 and 174: release, then the next pair or the end of the pairs
Up ==
    /\ pc = "Up"
    /\ \E out \in PageOutcomes({}) :
          IF out = OK
          THEN /\ mouseDown' = FALSE
               /\ IF i + 2 < captcha.n
                  THEN /\ Locals(wait, prompt, drag, j, captcha, i + 2, solPtr + 1, passCalls)
                       /\ Goto("Move1")
                  ELSE /\ Locals(TRUE, prompt, drag, j, captcha, i + 2, solPtr + 1, passCalls)
                       /\ Goto("Submit")
          ELSE LoopCatch(out) /\ UNCHANGED mouseDown
    /\ UNCHANGED << iter, solveCalls, badReports, lastBad, submitVars, loopFrame >>

\* lines 185-187: one click per returned point
Click ==
    /\ pc = "Click"
    /\ \E out \in PageOutcomes({ETimeout}) :
          IF out = OK
          THEN /\ Locals(wait, prompt, drag, j, captcha, i + 1, solPtr + 1, passCalls)
               /\ Goto(IF i + 1 < captcha.n THEN "Click" ELSE "Submit")
          ELSE LoopCatch(out)
    /\ UNCHANGED << iter, solveCalls, badReports, lastBad, mouseDown, submitVars, loopFrame >>

\* line 189: issue the submit click without awaiting it, then loop
Submit ==
    /\ pc = "Submit"
    /\ iter < MaxIter
    /\ iter' = iter + 1
    /\ submit' = [submit EXCEPT ![iter + 1] = IF late THEN IssuedLate ELSE Issued]
    /\ NextIteration(wait)
    /\ Goto(LoopTop(wait))
    /\ UNCHANGED << solveCalls, badReports, lastBad, mouseDown, altClicks,
                    loopFrame >>

\* lines 190-193: the .catch of the submit click
SubmitCatchMut(e) == "thrown"
SubmitCatch(e) == IF IsViewport(e) THEN "alt" ELSE "thrown"

\* lines 189-194: the detached submit click settles; its .catch clicks the
\* alternate control on a viewport error and rethrows anything else
SubmitSettles(k) ==
    /\ submit[k] \in {Issued, IssuedLate}
    /\ \E out \in PageOutcomes({EViewport, ETimeout}) :
          /\ submit' = [submit EXCEPT ![k] = out]
          /\ IF out = OK
             THEN UNCHANGED << altClicks, unhandled >>
             ELSE IF SubmitCatch(out) = "alt"
             THEN /\ altClicks' = [altClicks EXCEPT ![k] = @ + 1]
                  /\ UNCHANGED unhandled
             ELSE /\ unhandled' = unhandled + 1
                  /\ UNCHANGED altClicks
    /\ UNCHANGED << mainVars, sessVars, callerVars, pc, issued, loopErr, locals,
                    iter, solveCalls, badReports, lastBad, mouseDown, routeVars >>

SubmitClickSettles == \E k \in 1..MaxIter : SubmitSettles(k)

\* ------------------------------------------------------ the interceptor
\* resolve / reject of the returned promise: only the first call settles it
Settle(state, value) ==
    IF callerState = "pending"
    THEN callerState' = state /\ callerValue' = value
    ELSE UNCHANGED callerVars

\* line 214: headers().authorization.split('Bearer ').pop()
NewAuthTokenMut(auth) == auth.value
NewAuthToken(auth) == SplitPop(auth.value, BearerPrefix)

\* lines 207-222: the route handler, which runs without suspension
RouteHandler(req) ==
    /\ mainPc = "Running"
    /\ session \in {"open", "closing"}
    /\ matches < MaxMatches
    /\ matches' = matches + 1
    /\ routeAborted' = routeAborted + 1
    /\ closeCalls' = closeCalls + 1
    /\ session' = CloseSession(session)
    /\ aborted' = TRUE
    /\ abortCalls' = abortCalls + 1
    /\ IF ~req.auth.present
       THEN /\ Settle("rejected", ETypeError)
            /\ UNCHANGED << cbCalls, cbLast >>
       ELSE /\ IF NewAuthToken(req.auth) # <<>>
               THEN /\ cbCalls' = cbCalls + 1
                    /\ cbLast' = NewAuthToken(req.auth)
               ELSE UNCHANGED << cbCalls, cbLast >>
            /\ Settle("resolved", req.body.token)
    /\ UNCHANGED << mainVars, loopVars, submitVars, unhandled, routeContinued >>

RouteMatch == \E req \in Requests : RouteHandler(req)

\* ------------------------------------------------------- specification
Next ==
    \/ Launch
    \/ Navigate
    \/ WaitIface
    \/ Trigger
    \/ SessionClosed
    \/ WaitForRequests
    \/ Detect
    \/ Payload
    \/ Solve
    \/ BBox
    \/ Move1
    \/ Down
    \/ Sleep
    \/ Move2
    \/ Up
    \/ Click
    \/ Submit
    \/ SubmitClickSettles
    \/ RouteMatch

Spec == Init /\ [][Next]_vars

TypeOK ==
    /\ session \in {"none", "open", "closing", "closed"}
    /\ callerState \in {"pending", "resolved", "rejected"}
    /\ pc \in {"Idle", "Wait", "Detect", "Payload", "Solve", "BBox", "Move1", "Down",
               "Sleep", "Move2", "Up", "Click", "Submit", "Cancelled", "Failed"}
    /\ j \in 0..(MaxAttempts - 1)
    /\ iter \in 0..MaxIter
    /\ solveCalls \in 0..MaxSolves
    /\ matches \in 0..MaxMatches

\* ---------------------------------------------------------------- claims
LoopEnded == pc \in {"Cancelled", "Failed"}

\* C1: every run settles the operation returned to the caller; when the loop
\* fails fatally before any interceptor match, the caller's operation is
\* rejected with that error.  Stated on the final state of such a run: the
\* loop has failed, no request was intercepted and the browser is closed, so
\* nothing can settle the operation any more.
C1_FatalRejectsCaller ==
    (pc = "Failed" /\ matches = 0 /\ session = "closed")
        => (callerState = "rejected" /\ callerValue = loopErr)

\* C2: teardown is called exactly once per run on every terminal path,
\* including a fatal loop error after the interceptor has matched and closed
\* the session.  Stated on the step that ends the run, for runs with at most
\* one intercepted request: the interceptor's match while the loop runs, and
\* the end of the loop.
C2_CloseExactlyOnce ==
    [][/\ (matches = 0 /\ matches' = 1 /\ ~LoopEnded) => closeCalls' = 1
       /\ (~LoopEnded /\ LoopEnded' /\ matches <= 1) => closeCalls' = 1]_vars

\* C3: when the interceptor first matches a request with header
\* "Authorization: Bearer T" and a body with token A, the request is aborted
\* and never forwarded, the refresh callback is invoked with T, the signal is
\* set, the session is closed and the run resolves with A.
C3_InterceptorMatch ==
    [][\A T \in {Cred1} : \A A \in {Tok1, Tok2} :
          (matches = 0 /\ RouteHandler(Request(Header(BearerPrefix \o T), A)))
              => /\ routeAborted' = routeAborted + 1
                 /\ routeContinued' = 0
                 /\ cbCalls' = cbCalls + 1
                 /\ cbLast' = T
                 /\ aborted'
                 /\ closeCalls' = closeCalls + 1
                 /\ session' \in {"closing", "closed"}
                 /\ callerState' = "resolved"
                 /\ callerValue' = A]_vars

C3_Witness ==
    /\ matches = 1
    /\ callerState = "resolved"
    /\ callerValue = Tok2
    /\ cbCalls = 1
    /\ cbLast = Cred1
    /\ routeAborted = 1
    /\ aborted

\* C4: an odd-length solution for a drag challenge never reaches a pointer
\* action, triggers exactly one reportBad call with its id and a fresh solve,
\* in every state of the page, also when the container's bounding box cannot
\* be resolved.  Stated on the step that handles the solution.
C4_OddDragReported ==
    [][(pc = "BBox" /\ pc' # "BBox" /\ IsOdd(captcha.n))
          => /\ badReports' = badReports + 1
             /\ lastBad' = captcha.id
             /\ solPtr = 0
             /\ pc' = "Detect"]_vars

\* the awaited operations of the loop that are pointer actions
PointerPcs == (DragPcs \ {"Sleep"}) \cup {"Click"}

\* C5: the loop never performs a pointer action after the cancellation
\* signal has been set: no pointer action that the loop issued after the
\* signal takes effect on the page, the submit click included.
C5_NoPointerAfterSignal ==
    [][/\ ~(pc \in PointerPcs /\ late /\ solPtr' = solPtr + 1)
       /\ \A k \in 1..MaxIter : ~(submit[k] = IssuedLate /\ submit'[k] = OK)]_vars

\* C6: in one pass through the retry loop the solving service is called at
\* most 3 times; a successful call leaves the retry loop with no further
\* call, a failure of attempt 1 or 2 is followed by a retry, and the 3rd
\* failure propagates out of the loop as a fatal error.
C6_RetryBound ==
    [][/\ passCalls' <= 3
       /\ (pc = "Solve" /\ pc' # "Solve")
             => /\ solveCalls' = solveCalls
                /\ IF captcha' # NoCaptcha
                   THEN pc' \in {"BBox", "Click", "Submit"}
                   ELSE IF j < 2
                   THEN pc' = "Payload" /\ j' = j + 1 /\ passCalls' = passCalls
                   ELSE pc' = "Failed" /\ loopErr' = EService
       /\ (pc = "Solve" /\ pc' # "Solve" /\ captcha' = NoCaptcha /\ passCalls = 3)
             => pc' = "Failed"]_vars

C6_Witness ==
    /\ pc = "Failed"
    /\ loopErr = EService
    /\ solveCalls = 3
    /\ iter = 0
    /\ badReports = 0

\* C7: a submit-click failure that is not viewport-related is fatal: the
\* loop moves to Failed, the session is torn down and the error is surfaced
\* to the caller.
C7_SubmitErrorFatal ==
    \A k \in 1..MaxIter :
        (submit[k] \notin {NotIssued, Issued, IssuedLate, OK} /\ ~IsViewport(submit[k]))
            => (pc = "Failed" /\ closeCalls >= 1 /\ callerState = "rejected")

\* C8: when the submit click fails with a viewport-related error, the
\* alternate submit control is clicked exactly once for that iteration, the
\* iteration is not failed and the loop goes on.
C8_ViewportRetry ==
    [][\A k \in 1..MaxIter :
          /\ altClicks'[k] <= 1
          /\ (submit'[k] = EViewport) => altClicks'[k] = 1
          /\ (submit[k] \in {Issued, IssuedLate} /\ submit'[k] = EViewport)
                => /\ pc' = pc
                   /\ loopErr' = loopErr
                   /\ closeCalls' = closeCalls
                   /\ unhandled' = unhandled
                   /\ session' = session]_vars

C8_Witness ==
    /\ submit[1] = EViewport
    /\ altClicks[1] = 1
    /\ pc = "Solve"
    /\ iter = 1
    /\ closeCalls = 0

\* C9: when the matched request has no Authorization header the interceptor
\* still aborts the request and resolves the run with the artifact from the
\* body, without invoking the refresh callback.
C9_NoHeaderResolves ==
    [][\A A \in {Tok1, Tok2} :
          (matches = 0 /\ RouteHandler(Request(NoHeader, A)))
              => /\ routeAborted' = routeAborted + 1
                 /\ cbCalls' = cbCalls
                 /\ callerState' = "resolved"
                 /\ callerValue' = A]_vars

\* C10: once the interceptor has matched, the caller's outcome is the
\* artifact; no loop failure after the match turns the run into a rejection
\* or changes the resolved value, and the run never resolves without a match.
C10_MatchWins ==
    /\ (matches >= 1) => (callerState = "resolved" /\ callerValue \in {Tok1, Tok2})
    /\ (callerState = "resolved") => (matches >= 1)

\* The part of C10 about the race: steps of the loop and of the submit click
\* never touch the caller's operation, and a settled operation stays as it is.
LoopNeverSettlesCaller ==
    [][/\ (mainPc = "Running" /\ matches' = matches) => UNCHANGED callerVars
       /\ (callerState # "pending") => UNCHANGED callerVars]_vars

\* C11: in every run that terminates the cancellation signal is set exactly
\* once, on the fatal-error path as well as on interceptor success.  Stated
\* on the final states of a run: the loop has ended and the browser is
\* closed, or the browser is closed and the loop is gone.
C11_SignalSetOnEveryPath ==
    (LoopEnded /\ session = "closed") => (aborted /\ abortCalls = 1)

\* C12: the interceptor acts on the first matching request only: for a
\* later matching request of the same run the refresh callback is not
\* invoked again, the interceptor does not initiate teardown again and the
\* caller's operation is not settled again.
C12_FirstMatchOnly ==
    [][(matches >= 1 /\ matches' = matches + 1)
          => /\ cbCalls' = cbCalls
             /\ closeCalls' = closeCalls
             /\ UNCHANGED callerVars]_vars

\* the instruction text contains "drag" in any letter case
ContainsDragAnyCase(text) ==
    \E k \in 1..(Len(text) - 3) :
        /\ text[k] \in {"d", "D"}
        /\ text[k + 1] \in {"r", "R"}
        /\ text[k + 2] \in {"a", "A"}
        /\ text[k + 3] \in {"g", "G"}

\* C13: an iteration is classified as drag exactly when the instruction text
\* contains "drag" in any letter case; the solve request carries the drag
\* instructions exactly in a drag iteration; the bounding box and the
\* point-pair operations occur only in a drag iteration, clicks only in a
\* selection iteration, and a selection iteration makes one click per
\* returned point before it submits.
C13_Classification ==
    [][/\ (pc = "Detect" /\ pc' = "Payload") => drag' = ContainsDragAnyCase(prompt')
       /\ (pc' = "Solve") => instr' = drag'
       /\ (pc' \in DragPcs \cup {"BBox"}) => drag'
       /\ (pc' = "Click") => ~drag'
       /\ (pc = "Click" /\ pc' = "Submit") => solPtr' = captcha.n]_vars

C13_Witness ==
    /\ pc = "Solve"
    /\ prompt = <<"P", "l", "s", " ", "D", "r", "a", "g">>
    /\ drag
    /\ instr

\* C14: the quiescence wait is skipped only on the iteration that directly
\* follows an odd-length drag solution; every iteration that follows the
\* submit step begins with the wait, also a selection iteration that came
\* after an odd-length drag iteration.
C14_WaitAfterSubmit ==
    [][/\ (pc = "Submit" /\ pc' # "Submit") => pc' = "Wait"
       /\ (pc # "Detect" /\ pc' = "Detect")
             => (pc = "Wait" \/ (pc = "BBox" /\ IsOdd(captcha.n)))]_vars

\* C15: once a session has been opened, a failure of the run closes it
\* before the error reaches the caller: a failure of the navigation, of the
\* interface-load wait or of the trigger interaction does not leave the
\* browser session open.
C15_SetupFailureCloses ==
    (mainPc = "SetupFailed" /\ callerState = "rejected")
        => (session # "open" /\ (session # "none" => closeCalls >= 1))

\* C16: after the cancellation signal is set the loop starts no new request
\* to the solving service, and from whichever suspension point it is at its
\* next terminal state is Cancelled, never Failed.
C16_NoSolveAfterSignal ==
    [][aborted => /\ solveCalls' = solveCalls
                  /\ (pc # "Failed") => (pc' # "Failed")]_vars

\* C17: in a drag iteration a bounding box that cannot be resolved is fatal
\* and no pointer action is performed in that iteration; and every pointer
\* move issued after a suspension point uses a bounding box resolved after
\* that suspension, never one read before it.
C17_BoxFresh ==
    [][/\ (pc = "BBox" /\ pc' = "Failed" /\ loopErr' = EBBoxNull) => solPtr = 0
       /\ (pc' \in {"Move1", "Move2"} /\ pc' # pc) => ~boxStale']_vars

\* the awaited operations of the loop that act on the page
PagePcs == PointerPcs \cup {"Detect", "Payload", "BBox"}

C19_OneSolutionPerChallenge ==
    [][(pc = "Solve" /\ captcha' # NoCaptcha) => wait]_vars

\* the operation that follows p within one point-pair
NextInPair(p) ==
    CASE p = "Move1" -> "Down"
      [] p = "Down" -> "Sleep"
      [] p = "Sleep" -> "Move2"
      [] p = "Move2" -> "Up"

\* C20: for an even-length drag solution the pointer events are, pair by
\* pair in order, move to start, press, pause, move to end, release; the
\* pointer is never pressed while pressed; the submit step is reached only
\* after the release of the last pair; and an error after the press ends the
\* loop instead of retrying the drag.
C20_DragSequence ==
    [][/\ (pc \in DragPcs \ {"Up"} /\ pc' # pc)
             => (pc' = NextInPair(pc) /\ i' = i) \/ LoopEnded'
       /\ (pc = "Up" /\ pc' # pc)
             => \/ pc' = "Move1" /\ i' = i + 2 /\ i' < captcha.n /\ ~mouseDown'
                \/ pc' = "Submit" /\ i' = captcha.n /\ ~mouseDown'
                \/ LoopEnded'
       /\ (pc = "BBox" /\ pc' = "Move1") => (i' = 0 /\ ~IsOdd(captcha.n) /\ ~mouseDown)
       /\ (mouseDown' /\ ~mouseDown) => (pc = "Down" /\ pc' = "Sleep")
       /\ (pc = "Down" /\ pc' # pc) => ~mouseDown
       /\ (pc' = "Submit" /\ drag') => (~mouseDown' /\ solPtr' = 2 * captcha.n)]_vars

C20_Witness ==
    /\ pc = "Submit"
    /\ drag
    /\ captcha.n = 4
    /\ i = 4
    /\ solPtr = 8
    /\ ~mouseDown
====
